---- MODULE Spec2Model ----
(***************************************************************************)
(* A model of the requeststore package: a store of HTTP requests, response *)
(* headers and response bodies on a virtual filesystem, with ".private"    *)
(* marker files as an advisory write lock.                                 *)
(*                                                                         *)
(* Text is modelled as a sequence of one-character strings, so that the    *)
(* wire codec (request line, status line, MIME header block) is computed   *)
(* character by character as the code and the library calls it makes do.   *)
(* A response body is a sequence of blocks, one block per Write that       *)
(* io.Copy issues.                                                         *)
(***************************************************************************)
EXTENDS Integers, Sequences, FiniteSets, TLC

VARIABLES fs, last, procs, focus

vars == <<fs, last, procs, focus>>

(***************************************************************************)
(* Program constants (src/external.go:49-63)                               *)
(***************************************************************************)
requestPrefix == "request/"
headerPrefix == "header/"
bodyPrefix == "body/"
formatPrefix == "v1/"
dummyURL == <<"h","t","t","p",":","/","/","d","u","m","m","y">>
dummyContent == <<"d","u","m","m","y">>

nil == "nil"
ErrNotFoundInStore == "Not found in store"
ErrFoundWithZeroInStore == "Found 0 size file in store"
ErrFoundInStore == "Found in store"
ErrFoundInStorePrivate == "Found in store private"
\* errors of the collaborators (filesystem, textproto, net/http)
ErrIO == "io error"
ErrNotExist == "file does not exist"
ErrEOF == "EOF"
ErrMalformedRequestLine == "malformed HTTP request line"
ErrMalformedResponse == "malformed HTTP response"
ErrMalformedStatusCode == "malformed HTTP status code"
ErrMalformedMIMEHeader == "malformed MIME header line"
ErrInvalidMethod == "net/http: invalid method"

(***************************************************************************)
(* Characters and strings                                                  *)
(***************************************************************************)
SP == " "
CR == "\r"
LF == "\n"
CRLF == <<CR, LF>>
Lowers == <<"a","b","c","d","e","f","g","h","i","j","k","l","m",
            "n","o","p","q","r","s","t","u","v","w","x","y","z">>
Uppers == <<"A","B","C","D","E","F","G","H","I","J","K","L","M",
            "N","O","P","Q","R","S","T","U","V","W","X","Y","Z">>
Digits == <<"0","1","2","3","4","5","6","7","8","9">>
\* the characters of the model in ASCII order
Ascii == <<"\t", LF, CR, SP, "(", ")", "-", ".", "/">> \o Digits \o <<":", "@">>
           \o Uppers \o Lowers

Range(s) == {s[i] : i \in DOMAIN s}
IndexIn(s, c) == IF c \in Range(s) THEN CHOOSE i \in DOMAIN s : s[i] = c ELSE 0
CharCode(c) == IndexIn(Ascii, c)
IsLower(c) == c \in Range(Lowers)
IsUpper(c) == c \in Range(Uppers)
IsDigit(c) == c \in Range(Digits)
ToUpper(c) == IF IsLower(c) THEN Uppers[IndexIn(Lowers, c)] ELSE c
ToLower(c) == IF IsUpper(c) THEN Lowers[IndexIn(Uppers, c)] ELSE c
\* httpguts.IsTokenRune restricted to the characters of the model
IsTokenChar(c) == IsLower(c) \/ IsUpper(c) \/ IsDigit(c) \/ c \in {"-", "."}
IsSpaceChar(c) == c \in {SP, "\t", CR, LF}

Max(a, b) == IF a > b THEN a ELSE b
Drop(s, n) == SubSeq(s, n + 1, Len(s))
\* first index >= from at which c occurs in s, 0 when there is none
IndexFrom(s, c, from) ==
    LET hits == {i \in from..Len(s) : s[i] = c}
    IN IF hits = {} THEN 0 ELSE CHOOSE i \in hits : \A j \in hits : i <= j
HasPrefix(s, p) == Len(s) >= Len(p) /\ SubSeq(s, 1, Len(p)) = p

\* strings.Compare on the model's characters
RECURSIVE LexLess(_, _)
LexLess(a, b) ==
    IF b = <<>> THEN FALSE
    ELSE IF a = <<>> THEN TRUE
    ELSE IF a[1] # b[1] THEN CharCode(a[1]) < CharCode(b[1])
    ELSE LexLess(Tail(a), Tail(b))

\* the elements of a finite set of strings in increasing order (sort.Strings)
SortedSeq(S) ==
    IF S = {} THEN <<>>
    ELSE CHOOSE q \in [1..Cardinality(S) -> S] :
            /\ Range(q) = S
            /\ \A i \in 1..(Cardinality(S) - 1) : LexLess(q[i], q[i + 1])

\* textproto.TrimString: leading and trailing ASCII space removed
RECURSIVE TrimLeft(_)
TrimLeft(s) == IF s # <<>> /\ IsSpaceChar(s[1]) THEN TrimLeft(Tail(s)) ELSE s
RECURSIVE TrimRight(_)
TrimRight(s) ==
    IF s # <<>> /\ IsSpaceChar(s[Len(s)]) THEN TrimRight(SubSeq(s, 1, Len(s) - 1)) ELSE s
TrimString(s) == TrimRight(TrimLeft(s))

\* strconv.Itoa for n >= 0, and strconv.Atoi for unsigned decimal text
RECURSIVE Itoa(_)
Itoa(n) == IF n < 10 THEN <<Digits[n + 1]>> ELSE Append(Itoa(n \div 10), Digits[(n % 10) + 1])
RECURSIVE AtoiDigits(_, _)
AtoiDigits(s, acc) ==
    IF s = <<>> THEN acc ELSE AtoiDigits(Tail(s), acc * 10 + (IndexIn(Digits, s[1]) - 1))
Atoi(s) ==
    IF s # <<>> /\ \A i \in DOMAIN s : IsDigit(s[i])
    THEN [n |-> AtoiDigits(s, 0), err |-> nil]
    ELSE [n |-> 0, err |-> ErrMalformedStatusCode]

\* strings.SplitN(line, " ", 3)
SplitN3(line) ==
    LET i == IndexFrom(line, SP, 1)
        j == IF i = 0 THEN 0 ELSE IndexFrom(line, SP, i + 1)
    IN IF i = 0 THEN <<line>>
       ELSE IF j = 0 THEN <<SubSeq(line, 1, i - 1), Drop(line, i)>>
       ELSE <<SubSeq(line, 1, i - 1), SubSeq(line, i + 1, j - 1), Drop(line, j)>>

(***************************************************************************)
(* net/url: a URL is [Scheme, Opaque, Host, Path]; user info, query and    *)
(* fragment are not used by the requests of the model.                     *)
(***************************************************************************)
EmptyStr == <<>>
IsLetter(c) == IsLower(c) \/ IsUpper(c)
ToLowerStr(s) == [i \in DOMAIN s |-> ToLower(s[i])]

\* url.getScheme
SchemeAt(s, stops, stop) ==
       IF stops = {} THEN [scheme |-> EmptyStr, rest |-> s, err |-> nil]
       ELSE IF s[stop] = ":"
            THEN IF stop = 1
                 THEN [scheme |-> EmptyStr, rest |-> EmptyStr, err |-> "missing protocol scheme"]
                 ELSE [scheme |-> SubSeq(s, 1, stop - 1), rest |-> Drop(s, stop), err |-> nil]
            ELSE [scheme |-> EmptyStr, rest |-> s, err |-> nil]
SchemeStops(s, stops) == SchemeAt(s, stops, CHOOSE i \in stops : \A j \in stops : i <= j)
GetScheme(s) ==
    SchemeStops(s, {i \in DOMAIN s :
                     ~(IsLetter(s[i]) \/ (i > 1 /\ (IsDigit(s[i]) \/ s[i] \in {"-", "."})))})

\* url.Parse
ParseRest(g, scheme, rest, slash) ==
       IF g.err # nil
       THEN [url |-> [Scheme |-> EmptyStr, Opaque |-> EmptyStr, Host |-> EmptyStr,
                      Path |-> EmptyStr], err |-> g.err]
       ELSE IF ~HasPrefix(rest, <<"/">>) /\ scheme # EmptyStr
       THEN [url |-> [Scheme |-> scheme, Opaque |-> rest, Host |-> EmptyStr,
                      Path |-> EmptyStr], err |-> nil]
       ELSE IF HasPrefix(rest, <<"/", "/">>) /\ ~(scheme = EmptyStr /\ HasPrefix(rest, <<"/", "/", "/">>))
       THEN [url |-> [Scheme |-> scheme, Opaque |-> EmptyStr,
                      Host |-> IF slash = 0 THEN Drop(rest, 2) ELSE SubSeq(rest, 3, slash - 1),
                      Path |-> IF slash = 0 THEN EmptyStr ELSE Drop(rest, slash - 1)],
             err |-> nil]
       ELSE [url |-> [Scheme |-> scheme, Opaque |-> EmptyStr, Host |-> EmptyStr,
                      Path |-> rest], err |-> nil]
ParseScheme(g) == ParseRest(g, ToLowerStr(g.scheme), g.rest, IndexFrom(g.rest, "/", 3))
URLParse(s) == ParseScheme(GetScheme(s))

\* URL.String
URLString(u) ==
    LET s1 == IF u.Scheme # EmptyStr THEN u.Scheme \o <<":">> ELSE EmptyStr
    IN IF u.Opaque # EmptyStr THEN s1 \o u.Opaque
       ELSE LET s2 == IF u.Scheme # EmptyStr \/ u.Host # EmptyStr
                      THEN (IF u.Host # EmptyStr \/ u.Path # EmptyStr
                            THEN <<"/", "/">> ELSE EmptyStr) \o u.Host
                      ELSE EmptyStr
                s3 == IF u.Path # EmptyStr /\ u.Path[1] # "/" /\ u.Host # EmptyStr
                      THEN <<"/">> ELSE EmptyStr
            IN s1 \o s2 \o s3 \o u.Path

\* URL.IsAbs
IsAbs(u) == u.Scheme # EmptyStr

(***************************************************************************)
(* net/http and net/textproto: header blocks.  An http.Header is a         *)
(* function from field names to the sequence of the field's values.        *)
(***************************************************************************)
EmptyHeader == <<>>
HeaderAdd(m, k, v) ==
    IF k \in DOMAIN m THEN [m EXCEPT ![k] = Append(@, v)] ELSE (k :> <<v>>) @@ m

\* httpguts.ValidHeaderFieldName
ValidHeaderFieldName(k) == k # EmptyStr /\ \A i \in DOMAIN k : IsTokenChar(k[i])

\* textproto.CanonicalMIMEHeaderKey: a name with a byte that is no token
\* character is returned unchanged
CanonicalMIMEHeaderKey(k) ==
    IF ~(\A i \in DOMAIN k : IsTokenChar(k[i])) THEN k
    ELSE [i \in DOMAIN k |->
            IF i = 1 \/ k[Max(i - 1, 1)] = "-" THEN ToUpper(k[i]) ELSE ToLower(k[i])]

\* headerNewlineToSpace
NewlineToSpace(v) == [i \in DOMAIN v |-> IF v[i] \in {CR, LF} THEN SP ELSE v[i]]

RECURSIVE ValueLines(_, _)
ValueLines(k, vs) ==
    IF vs = <<>> THEN EmptyStr
    ELSE k \o <<":", SP>> \o TrimString(NewlineToSpace(vs[1])) \o CRLF \o ValueLines(k, Tail(vs))

RECURSIVE KeyLines(_, _)
KeyLines(h, ks) ==
    IF ks = <<>> THEN EmptyStr
    ELSE (IF ValidHeaderFieldName(ks[1]) THEN ValueLines(ks[1], h[ks[1]]) ELSE EmptyStr)
         \o KeyLines(h, Tail(ks))

\* http.Header.Write: the fields in sorted order of their names, a field with
\* an invalid name skipped, each value on a line of its own
HeaderWrite(h) == KeyLines(h, SortedSeq(DOMAIN h))

\* headersToWriter: the header block and the blank line that ends it
headersToWriter(h) == HeaderWrite(h) \o CRLF

\* textproto.Reader.ReadLine: the bytes to the next LF, a trailing CR removed;
\* at the end of the data the unterminated rest is a line, and then EOF
ReadLine(data) ==
    LET i == IndexFrom(data, LF, 1)
        raw == IF i = 0 THEN data ELSE SubSeq(data, 1, i - 1)
    IN IF data = <<>> THEN [line |-> EmptyStr, rest |-> <<>>, err |-> ErrEOF]
       ELSE [line |-> IF raw # <<>> /\ raw[Len(raw)] = CR /\ i # 0
                      THEN SubSeq(raw, 1, Len(raw) - 1) ELSE raw,
             rest |-> IF i = 0 THEN <<>> ELSE Drop(data, i),
             err |-> nil]

\* textproto.Reader.ReadMIMEHeader.  The writer never emits a line that starts
\* with white space, so continuation lines do not occur in stored records; a
\* first line that starts with white space is the library's "initial line" error.
RECURSIVE ReadMIMELines(_, _)
ReadMIMELines(data, m) ==
    LET r == ReadLine(data)
        line == TrimString(r.line)
        colon == IndexFrom(line, ":", 1)
        key == CanonicalMIMEHeaderKey(SubSeq(line, 1, colon - 1))
    IN IF r.err # nil THEN [h |-> m, err |-> r.err]
       ELSE IF line = EmptyStr THEN [h |-> m, err |-> nil]
       ELSE IF colon = 0 \/ ~ValidHeaderFieldName(key) THEN [h |-> m, err |-> ErrMalformedMIMEHeader]
       ELSE ReadMIMELines(r.rest, HeaderAdd(m, key, TrimLeft(Drop(line, colon))))

ReadMIMEHeader(data) ==
    IF data # <<>> /\ data[1] \in {SP, "\t"}
    THEN [h |-> EmptyHeader, err |-> ErrMalformedMIMEHeader]
    ELSE ReadMIMELines(data, EmptyHeader)

\* http.StatusText for the status codes of the model
StatusText(code) ==
    CASE code = 200 -> <<"O", "K">>
      [] code = 404 -> <<"N", "o", "t", SP, "F", "o", "u", "n", "d">>
      [] OTHER -> EmptyStr

ProtoHTTP11 == <<"H", "T", "T", "P", "/", "1", ".", "1">>
ProtoHTTP10 == <<"H", "T", "T", "P", "/", "1", ".", "0">>
MethodGET == <<"G", "E", "T">>

\* http.NewRequest(method, url, nil): the method validated, the URL parsed,
\* the protocol always HTTP/1.1
NoURL == [Scheme |-> EmptyStr, Opaque |-> EmptyStr, Host |-> EmptyStr, Path |-> EmptyStr]
NoReq == [Method |-> EmptyStr, URL |-> NoURL, Proto |-> EmptyStr,
          Header |-> EmptyHeader, Host |-> EmptyStr]
NewRequestWith(m, u) ==
    IF ~(\A i \in DOMAIN m : IsTokenChar(m[i])) THEN [req |-> NoReq, err |-> ErrInvalidMethod]
    ELSE IF u.err # nil THEN [req |-> NoReq, err |-> u.err]
    ELSE [req |-> [Method |-> m, URL |-> u.url, Proto |-> ProtoHTTP11,
                   Header |-> EmptyHeader, Host |-> u.url.Host],
          err |-> nil]
NewRequest(method, urlStr) ==
    NewRequestWith(IF method = EmptyStr THEN MethodGET ELSE method, URLParse(urlStr))

\* dummyReq: http.NewRequest("GET", dummyURL, nil), its error dropped
dummyReq == NewRequest(MethodGET, dummyURL).req

\* readRequest: the request line split in three fields, then the header block;
\* the third field (the protocol) is read and dropped
RequestOf(mh, nr) ==
    IF mh.err # nil THEN [req |-> dummyReq, err |-> mh.err]
    ELSE IF nr.err # nil THEN [req |-> dummyReq, err |-> nr.err]
    ELSE [req |-> [nr.req EXCEPT !.Header = mh.h], err |-> nil]
RequestOfFields(f, rest) ==
    IF Len(f) < 2 THEN [req |-> dummyReq, err |-> ErrMalformedRequestLine]
    ELSE IF ~(Len(f) > 2) THEN [req |-> dummyReq, err |-> ErrMalformedRequestLine]
    ELSE RequestOf(ReadMIMEHeader(rest), NewRequest(f[1], f[2]))
RequestOfLine(r) ==
    IF r.err # nil THEN [req |-> dummyReq, err |-> r.err]
    ELSE RequestOfFields(SplitN3(r.line), r.rest)
readRequest(data) == RequestOfLine(ReadLine(data))

\* readResponseHeaders: the status line, its second field the status code
NoHeader == [StatusCode |-> 0, Header |-> EmptyHeader]
HeaderOf(code, mh) ==
    IF code.err # nil THEN [h |-> NoHeader, err |-> ErrMalformedStatusCode]
    ELSE IF mh.err # nil THEN [h |-> NoHeader, err |-> mh.err]
    ELSE [h |-> [StatusCode |-> code.n, Header |-> mh.h], err |-> nil]
HeaderOfFields(f, rest) ==
    IF Len(f) < 2 THEN [h |-> NoHeader, err |-> ErrMalformedResponse]
    ELSE HeaderOf(Atoi(f[2]), ReadMIMEHeader(rest))
HeaderOfLine(r) ==
    IF r.err # nil THEN [h |-> NoHeader, err |-> r.err]
    ELSE HeaderOfFields(SplitN3(r.line), r.rest)
readResponseHeaders(data) == HeaderOfLine(ReadLine(data))

\* StoreRequest, the record it writes: a relative URL is made absolute with
\* the request's host, then the request line and the header block
RequestURL(h) ==
    IF ~IsAbs(h.URL)
    THEN URLParse(<<"h", "t", "t", "p", ":", "/", "/">> \o h.Host \o URLString(h.URL)).url
    ELSE h.URL
RequestBytes(h) ==
    h.Method \o <<SP>> \o URLString(RequestURL(h)) \o <<SP>> \o h.Proto \o CRLF
      \o headersToWriter(h.Header)

\* storeHeader, the record it writes: the status line and the header block
ResponseHeaderBytes(code, h) ==
    ProtoHTTP11 \o <<SP>> \o Itoa(code) \o <<SP>> \o StatusText(code) \o CRLF
      \o headersToWriter(h)


(***************************************************************************)
(* The filesystem (the vfs.VFS the store is built on): the files that      *)
(* exist, each with its data, and the directories made so far.             *)
(***************************************************************************)
\* HashKey: s.hash is never set, so the digest is always the SHA-256 of the
\* key; the model keeps the digest symbolic, distinct keys having distinct
\* digests, and gives the order of the digests where a walk reads names
HashKey(key) == <<"sha256", key>>

\* a path: the directory (class prefix and format prefix), the file's name (a
\* digest) and the number of ".private" suffixes appended to it
NoName == <<"", "">>
PathOf(prefix, key) == [dir |-> <<prefix, formatPrefix>>, name |-> HashKey(key), private |-> 0]
Private(path) == [path EXCEPT !.private = @ + 1]
\* pathutil.Dir of a path of the store
Dir(path) == [dir |-> path.dir, name |-> NoName, private |-> 0]

EmptyFS == [files |-> <<>>, dirs |-> {}]
Exists(s, path) == path \in DOMAIN s.files
IsDir(s, path) == path \in s.dirs

\* fs.Stat: the size of the file, or the error of a missing file
Stat(s, path) ==
    IF Exists(s, path) THEN [err |-> nil, size |-> Len(s.files[path])]
    ELSE IF IsDir(s, path) THEN [err |-> nil, size |-> 1]
    ELSE [err |-> ErrNotExist, size |-> 0]

\* vfs.MkdirAll
MkdirAll(s, dir) == [s EXCEPT !.dirs = @ \cup {dir}]

\* fs.OpenFile(path, O_CREATE|O_TRUNC|O_WRONLY): the file exists and is empty
OpenFileTrunc(s, path) ==
    [s EXCEPT !.files = (path :> <<>>) @@ [q \in DOMAIN @ \ {path} |-> @[q]]]

\* the zero byte that fills a gap, and the block of zero bytes in a body
NUL == "NUL"
NULOf(path) == IF path.dir[1] = bodyPrefix THEN <<NUL, 0>> ELSE NUL

\* one Write of data through a handle whose offset is off: the bytes land at
\* the offset, whatever the file holds by then; a gap reads as zero bytes
Overlay(old, off, data, zero) ==
    [i \in 1..Max(Len(old), off + Len(data)) |->
        IF i > off /\ i <= off + Len(data) THEN data[i - off]
        ELSE IF i <= Len(old) THEN old[i]
        ELSE zero]
WriteAt(s, path, off, data) ==
    IF Exists(s, path) THEN [s EXCEPT !.files[path] = Overlay(@, off, data, NULOf(path))]
    ELSE s

\* fs.Remove
Remove(s, path) ==
    IF Exists(s, path)
    THEN [fs |-> [s EXCEPT !.files = [q \in DOMAIN @ \ {path} |-> @[q]]], err |-> nil]
    ELSE [fs |-> s, err |-> ErrNotExist]

\* privateFileExists without the ".private" suffix: the content file is
\* taken for the marker
privateFileExistsNoSuffix(s, file) ==
    LET st == Stat(s, file)
    IN IF st.err = nil /\ st.size > 0 THEN ErrFoundInStorePrivate ELSE nil

\* privateFileExists: the marker counts only when it holds bytes
privateFileExists(s, file) ==
    LET st == Stat(s, Private(file))
    IN IF st.err = nil /\ st.size > 0 THEN ErrFoundInStorePrivate ELSE nil

\* the check of a content file in the stores: it counts only when it holds bytes
contentFileExists(s, file) ==
    LET st == Stat(s, file)
    IN IF st.err = nil /\ st.size > 0 THEN ErrFoundInStore ELSE nil


(***************************************************************************)
(* A call of the store is a frame: the operation and its arguments, and    *)
(* the position (pc) and the locals of the call.  Step takes the call one  *)
(* filesystem operation further.  fault names the filesystem operation of  *)
(* a store that fail, if any: [mk |-> the failing operation of the marker's *)
(* creation, at |-> the failing later operation, cls |-> the class whose   *)
(* store fails, n |-> the number of Writes of io.Copy that succeed before  *)
(* the failure].                                                           *)
(***************************************************************************)
NoFault == [mk |-> "none", at |-> "none", cls |-> "none", n |-> 0]
NoResp == [StatusCode |-> 0, Header |-> EmptyHeader, Body |-> <<>>]
NoVal == [kind |-> "none", req |-> NoReq, resp |-> NoResp]
NoPath == [dir |-> <<"", "">>, name |-> NoName, private |-> 0]

StoreOps == {"StoreRequest", "StoreResponse", "StoreResponseHeader"}
RetrieveOps == {"RetrieveRequest", "RetrieveRequestByFileName", "RetrieveResponse",
                "RetrieveResponseHeader"}
DelOps == {"DelRequest", "DelResponse", "DelResponseBody", "DelResponseHeader"}

\* the resource class an operation starts with
FirstClass(op) ==
    CASE op \in {"StoreRequest", "RetrieveRequest", "RetrieveRequestByFileName", "DelRequest"}
            -> requestPrefix
      [] op \in {"StoreResponse", "RetrieveResponse", "DelResponse", "DelResponseBody"}
            -> bodyPrefix
      [] op \in {"StoreResponseHeader", "RetrieveResponseHeader", "DelResponseHeader"}
            -> headerPrefix
      [] OTHER -> "none"

\* a store that never checks, as if override were always set
StoreEntryUnchecked(override) == "mk_open"

\* the first filesystem operation of a store: the checks are skipped on override
StoreEntry(override) == IF override THEN "mk_open" ELSE "st_private"

FirstPc(op, override) ==
    CASE op \in StoreOps -> StoreEntry(override)
      [] op \in {"RetrieveRequest", "RetrieveRequestByFileName"} -> "rq_private"
      [] op = "RetrieveResponse" -> "rb_private"
      [] op = "RetrieveResponseHeader" -> "rh_private"
      [] op \in DelOps -> "dl_file"
      [] op = "DelByFilename" -> "df_remove"
      [] OTHER -> "done"

\* what client.Do returned to FetchAndStoreResponse: the response, or none
\* (isnil), its body closed or not, and the error
NoNet == [isnil |-> TRUE, resp |-> NoResp, closed |-> FALSE, err |-> nil]


IdleFrame ==
    [op |-> "none", key |-> "", override |-> FALSE, req |-> NoReq, resp |-> NoResp,
     file |-> NoPath, fault |-> NoFault, pc |-> "idle", cls |-> "none",
     n |-> 0, off |-> 0, live |-> TRUE, open |-> {}, err |-> nil, val |-> NoVal,
     torn |-> FALSE, net |-> NoNet]

NewFrame(op, key, override, req, resp, file, fault) ==
    [IdleFrame EXCEPT !.op = op, !.key = key, !.override = override, !.req = req,
                      !.resp = resp, !.file = file, !.fault = fault,
                      !.pc = FirstPc(op, override), !.cls = FirstClass(op)]

\* one path for the records of every class of a key
TargetShared(f) == PathOf(requestPrefix, f.key)
Target(f) == PathOf(f.cls, f.key)
Faulty(f, at) == f.fault.cls = f.cls /\ (f.fault.at = at \/ f.fault.mk = at)

\* what a store writes, as the sequence of the Writes of io.Copy: a request or
\* header record comes from a bytes.Reader, which hands all of it to one Write;
\* a body is copied block by block
Blocks(body) == [i \in DOMAIN body |-> <<body[i]>>]
StoreData(f) ==
    CASE f.cls = requestPrefix -> <<RequestBytes(f.req)>>
      [] f.cls = headerPrefix -> <<ResponseHeaderBytes(f.resp.StatusCode, f.resp.Header)>>
      [] OTHER -> Blocks(f.resp.Body)

\* the return of StoreRequest, storeBody or storeHeader: StoreResponse goes on
\* to storeHeader when storeBody returned no error
StoreReturn(f, e) ==
    IF f.op = "StoreResponse" /\ f.cls = bodyPrefix /\ e = nil
    THEN [f EXCEPT !.cls = headerPrefix, !.pc = StoreEntry(f.override), !.n = 0, !.off = 0]
    ELSE [f EXCEPT !.pc = "done", !.err = e]

\* where io.Copy stands after n Writes: at the end of the data it returns
CopyPc(f, n) ==
    IF Faulty(f, "w_copy") /\ f.fault.n = n THEN "w_copy"
    ELSE IF n = Len(StoreData(f)) THEN "rm"
    ELSE "w_copy"

\* StoreRequest, storeBody, storeHeader: one filesystem operation
StoreStep(f, s) ==
    LET path == Target(f)
        made == MkdirAll(s, Dir(path))
    IN CASE f.pc = "st_private" ->
              LET e == privateFileExists(s, path)
              IN [f |-> IF e # nil THEN StoreReturn(f, e) ELSE [f EXCEPT !.pc = "st_file"],
                  fs |-> s]
         [] f.pc = "st_file" ->
              LET e == contentFileExists(s, path)
              IN [f |-> IF e # nil THEN StoreReturn(f, e) ELSE [f EXCEPT !.pc = "mk_open"],
                  fs |-> s]
         \* vfsCreatePrivateDummy, its error ignored by the caller
         [] f.pc = "mk_open" ->
              IF Faulty(f, "mk_open")
              THEN [f |-> [f EXCEPT !.pc = "w_open"], fs |-> made]
              ELSE [f |-> [f EXCEPT !.pc = "mk_write", !.live = TRUE],
                    fs |-> OpenFileTrunc(made, Private(path))]
         [] f.pc = "mk_write" ->
              [f |-> [f EXCEPT !.pc = "w_open"],
               fs |-> IF Faulty(f, "mk_write") \/ ~f.live THEN s
                      ELSE WriteAt(s, Private(path), 0, dummyContent)]
         \* vfsWrite, its error returned with the marker left behind
         [] f.pc = "w_open" ->
              IF Faulty(f, "w_open")
              THEN [f |-> StoreReturn(f, ErrIO), fs |-> made]
              ELSE [f |-> [f EXCEPT !.pc = CopyPc(f, 0), !.n = 0, !.off = 0, !.live = TRUE],
                    fs |-> OpenFileTrunc(made, path)]
         [] f.pc = "w_copy" ->
              IF Faulty(f, "w_copy") /\ f.fault.n = f.n
              THEN [f |-> StoreReturn(f, ErrIO), fs |-> s]
              ELSE [f |-> [f EXCEPT !.pc = CopyPc(f, f.n + 1), !.n = f.n + 1,
                                    !.off = f.off + Len(StoreData(f)[f.n + 1])],
                    fs |-> IF f.live THEN WriteAt(s, path, f.off, StoreData(f)[f.n + 1])
                           ELSE s]
         \* vfsDeletePrivateDummy, its error ignored by the caller
         [] f.pc = "rm" ->
              [f |-> StoreReturn(f, nil),
               fs |-> IF Faulty(f, "rm") THEN made ELSE Remove(made, Private(path)).fs]

\* the error of fs.Open for reading when the file is missing: the retrieves
\* turn it into ErrNotFoundInStore (vfs.IsNotExist)
OpenErrorUnmapped(s, path) ==
    IF ~Exists(s, path) /\ ~IsDir(s, path) THEN ErrNotExist ELSE nil
OpenError(s, path) ==
    IF ~Exists(s, path) /\ ~IsDir(s, path) THEN ErrNotFoundInStore ELSE nil

\* the return of a retrieve
Fail(f, e, open) == [f EXCEPT !.pc = "done", !.err = e, !.open = open]

\* RetrieveRequestByFileName: one filesystem operation.  The handle is closed
\* on every return (defer f.Close()).  busy: the content paths under write.
RequestRead(f, d, busy) ==
    IF d.err # nil THEN Fail(f, d.err, {})
    ELSE [f EXCEPT !.pc = "done", !.err = nil, !.open = {},
                   !.val = [NoVal EXCEPT !.kind = "request", !.req = d.req],
                   !.torn = f.file \in busy]
RetrieveRequestStep(f, s, busy) ==
    CASE f.pc = "rq_private" ->
           LET e == privateFileExists(s, f.file)
           IN IF e # nil THEN Fail(f, e, {}) ELSE [f EXCEPT !.pc = "rq_open"]
      [] f.pc = "rq_open" ->
           IF OpenError(s, f.file) # nil THEN Fail(f, OpenError(s, f.file), {})
           ELSE [f EXCEPT !.pc = "rq_stat", !.open = {f.file}]
      [] f.pc = "rq_stat" ->
           LET st == Stat(s, f.file)
           IN IF st.err # nil THEN Fail(f, st.err, {})
              ELSE IF st.size = 0 THEN Fail(f, ErrFoundWithZeroInStore, {})
              ELSE [f EXCEPT !.pc = "rq_read"]
      [] f.pc = "rq_read" ->
           IF ~Exists(s, f.file) THEN Fail(f, ErrIO, {})
           ELSE RequestRead(f, readRequest(s.files[f.file]), busy)

\* RetrieveResponse and RetrieveResponseHeader: one filesystem operation.  No
\* handle is closed here: the body's is handed to the caller on success.
\* the return of RetrieveResponse or RetrieveResponseHeader with the header d
\* read: NewResponse(h.StatusCode, f, h.Header), the body what the handle reads
ResponseRead(f, s, d, body, busy) ==
    IF d.err # nil THEN Fail(f, d.err, f.open)
    ELSE IF f.op = "RetrieveResponseHeader"
    THEN [f EXCEPT !.pc = "done", !.err = nil,
                   !.val = [NoVal EXCEPT !.kind = "header", !.resp = d.h @@ [Body |-> <<>>]]]
    ELSE [f EXCEPT !.pc = "done", !.err = nil,
                   !.val = [NoVal EXCEPT !.kind = "response",
                               !.resp = d.h @@ [Body |-> IF Exists(s, body) THEN s.files[body]
                                                         ELSE <<>>]],
                   !.torn = body \in busy]
RetrieveResponseStep(f, s, busy) ==
    LET body == PathOf(bodyPrefix, f.key)
        header == PathOf(headerPrefix, f.key)
    IN CASE f.pc = "rb_private" ->
              LET e == privateFileExists(s, body)
              IN IF e # nil THEN Fail(f, e, f.open) ELSE [f EXCEPT !.pc = "rb_open"]
         [] f.pc = "rb_open" ->
              IF OpenError(s, body) # nil THEN Fail(f, OpenError(s, body), f.open)
              ELSE [f EXCEPT !.pc = "rb_stat", !.open = @ \cup {body}]
         [] f.pc = "rb_stat" ->
              LET st == Stat(s, body)
              IN IF st.err # nil THEN Fail(f, st.err, f.open)
                 ELSE IF st.size = 0 THEN Fail(f, ErrFoundWithZeroInStore, f.open)
                 ELSE [f EXCEPT !.pc = "rh_private"]
         [] f.pc = "rh_private" ->
              LET e == privateFileExists(s, header)
              IN IF e # nil THEN Fail(f, e, f.open) ELSE [f EXCEPT !.pc = "rh_open"]
         [] f.pc = "rh_open" ->
              IF OpenError(s, header) # nil THEN Fail(f, OpenError(s, header), f.open)
              ELSE [f EXCEPT !.pc = "rh_read", !.open = @ \cup {header}]
         [] f.pc = "rh_read" ->
              IF ~Exists(s, header) THEN Fail(f, ErrIO, f.open)
              ELSE ResponseRead(f, s, readResponseHeaders(s.files[header]), body, busy)

\* DelResponseBody going on to the header as DelResponse does
DelReturnBoth(f, e) ==
    IF f.op \in {"DelResponse", "DelResponseBody"} /\ f.cls = bodyPrefix /\ e = nil
    THEN [f EXCEPT !.cls = headerPrefix, !.pc = "dl_file"]
    ELSE [f EXCEPT !.pc = "done", !.err = e]

\* the return of DelRequest, DelResponseBody or DelResponseHeader: DelResponse
\* goes on to DelResponseHeader when DelResponseBody returned no error
DelReturn(f, e) ==
    IF f.op = "DelResponse" /\ f.cls = bodyPrefix /\ e = nil
    THEN [f EXCEPT !.cls = headerPrefix, !.pc = "dl_file"]
    ELSE [f EXCEPT !.pc = "done", !.err = e]

\* fs.Remove on a filesystem that may fail to remove a file that is there
\* (permission denied, I/O error); a missing file is reported as such
RemoveFaulty(s, path, hard) ==
    IF hard /\ Exists(s, path) THEN [fs |-> s, err |-> ErrIO] ELSE Remove(s, path)

\* DelByFilename that takes a file it did not remove for a removed one
DelByFilenameForgiving(s, filename, hard) ==
    [fs |-> RemoveFaulty(s, filename, hard).fs, err |-> nil]

\* DelByFilename: a missing file gives ErrNotFoundInStore, any other error
\* of fs.Remove is returned as it is
DelByFilename(s, filename, hard) ==
    LET r == RemoveFaulty(s, filename, hard)
    IN IF r.err # nil
       THEN [fs |-> s, err |-> IF r.err = ErrNotExist THEN ErrNotFoundInStore ELSE r.err]
       ELSE [fs |-> r.fs, err |-> nil]

\* DelRequest, DelResponseBody, DelResponseHeader, DelByFilename: one
\* filesystem operation; the error of the marker's removal is dropped
DelStep(f, s) ==
    CASE f.pc = "dl_file" ->
           LET r == DelByFilename(s, Target(f), Faulty(f, "dl_file"))
           IN [f |-> IF r.err # nil THEN DelReturn(f, r.err) ELSE [f EXCEPT !.pc = "dl_private"],
               fs |-> r.fs]
      [] f.pc = "dl_private" ->
           [f |-> DelReturn(f, nil),
            fs |-> DelByFilename(s, Private(Target(f)), Faulty(f, "dl_private")).fs]
      [] f.pc = "df_remove" ->
           LET r == DelByFilename(s, f.file, Faulty(f, "df_remove"))
           IN [f |-> [f EXCEPT !.pc = "done", !.err = r.err], fs |-> r.fs]

StorePcs == {"st_private", "st_file", "mk_open", "mk_write", "w_open", "w_copy", "rm"}
RequestPcs == {"rq_private", "rq_open", "rq_stat", "rq_read"}
ResponsePcs == {"rb_private", "rb_open", "rb_stat", "rh_private", "rh_open", "rh_read"}
DelPcs == {"dl_file", "dl_private", "df_remove"}

\* one filesystem operation of the call f on the filesystem s
Step(f, s, busy) ==
    CASE f.pc \in StorePcs -> StoreStep(f, s)
      [] f.pc \in RequestPcs -> [f |-> RetrieveRequestStep(f, s, busy), fs |-> s]
      [] f.pc \in ResponsePcs -> [f |-> RetrieveResponseStep(f, s, busy), fs |-> s]
      [] f.pc \in DelPcs -> DelStep(f, s)

\* a call run from its start to its return with no other call in between
RECURSIVE Run(_, _)
RunOn(r) == Run(r.f, r.fs)
Run(f, s) ==
    IF f.pc = "done"
    THEN [fs |-> s, err |-> f.err, val |-> f.val, open |-> f.open, cls |-> f.cls]
    ELSE RunOn(Step(f, s, {}))


(***************************************************************************)
(* The operations of the Store interface, each run from call to return     *)
(***************************************************************************)
StoreRequest(s, h, key, override, fault) ==
    Run(NewFrame("StoreRequest", key, override, h, NoResp, NoPath, fault), s)

StoreResponse(s, res, key, override, fault) ==
    Run(NewFrame("StoreResponse", key, override, NoReq, res, NoPath, fault), s)

StoreResponseHeader(s, res, key, override, fault) ==
    Run(NewFrame("StoreResponseHeader", key, override, NoReq, res, NoPath, fault), s)

RetrieveRequestByFileName(s, filename) ==
    Run(NewFrame("RetrieveRequestByFileName", "", FALSE, NoReq, NoResp, filename, NoFault), s)

RetrieveRequestByHash(s, hash) ==
    RetrieveRequestByFileName(
        s, [dir |-> <<requestPrefix, formatPrefix>>, name |-> hash, private |-> 0])

RetrieveRequest(s, key) == RetrieveRequestByHash(s, HashKey(key))

RetrieveResponse(s, key) ==
    Run(NewFrame("RetrieveResponse", key, FALSE, NoReq, NoResp, NoPath, NoFault), s)

RetrieveResponseHeader(s, key) ==
    Run(NewFrame("RetrieveResponseHeader", key, FALSE, NoReq, NoResp, NoPath, NoFault), s)

DelRequest(s, key) ==
    Run(NewFrame("DelRequest", key, FALSE, NoReq, NoResp, NoPath, NoFault), s)

DelResponse(s, key) ==
    Run(NewFrame("DelResponse", key, FALSE, NoReq, NoResp, NoPath, NoFault), s)

DelResponseBody(s, key) ==
    Run(NewFrame("DelResponseBody", key, FALSE, NoReq, NoResp, NoPath, NoFault), s)

DelResponseHeader(s, key) ==
    Run(NewFrame("DelResponseHeader", key, FALSE, NoReq, NoResp, NoPath, NoFault), s)

\* the keys of the model
KeyNames == <<"a", "b", "c", "d">>
NumKeys == 2
Keys == {KeyNames[i] : i \in 1..NumKeys}

\* the head of the SHA-256 digest of each key, as HashKey prints it (%x):
\* ca978112.. of a, 3e23e816.. of b, 2e7d2c03.. of c, 18ac3e73.. of d
DigestHead(key) ==
    CASE key = "a" -> <<"c", "a">>
      [] key = "b" -> <<"3", "e">>
      [] key = "c" -> <<"2", "e">>
      [] key = "d" -> <<"1", "8">>
      [] OTHER -> EmptyStr
\* the keys in the lexical order of their digests, the order in which the
\* walk reads the names of a directory
WalkOrder ==
    LET heads == SortedSeq({DigestHead(KeyNames[i]) : i \in DOMAIN KeyNames})
    IN [j \in DOMAIN heads |->
           CHOOSE k \in Range(KeyNames) : DigestHead(k) = heads[j]]

\* vfs.Walk from requestPrefix+formatPrefix: the directory itself, then its
\* files in the order of their names, a marker after its content file
RequestRoot == [dir |-> <<requestPrefix, formatPrefix>>, name |-> NoName, private |-> 0]
RECURSIVE WalkNames(_, _)
WalkNames(s, i) ==
    IF i > Len(WalkOrder) THEN <<>>
    ELSE LET path == PathOf(requestPrefix, WalkOrder[i])
         IN (IF Exists(s, path) THEN <<path>> ELSE <<>>)
            \o (IF Exists(s, Private(path)) THEN <<Private(path)>> ELSE <<>>)
            \o WalkNames(s, i + 1)
Walk(s) == IF IsDir(s, RequestRoot) THEN <<RequestRoot>> \o WalkNames(s, 1) ELSE <<>>

\* RetrieveAllRequests: every visited path is retrieved as a request, and a
\* path whose retrieve fails is left out
\* the request appended whether the retrieve failed or not
RetrievedEvenOnError(r) == <<r.val.req>>
\* the callback of the walk: a request is appended when its retrieve returned
\* no error
Retrieved(r) == IF r.err = nil THEN <<r.val.req>> ELSE <<>>
RECURSIVE RetrieveEach(_, _)
RetrieveEach(s, paths) ==
    IF paths = <<>> THEN <<>>
    ELSE Retrieved(RetrieveRequestByFileName(s, paths[1])) \o RetrieveEach(s, Tail(paths))
RetrieveAllRequests(s) == RetrieveEach(s, Walk(s))


(***************************************************************************)
(* The inputs of the model                                                 *)
(***************************************************************************)
SchemeHTTP == <<"h", "t", "t", "p">>
MethodPOST == <<"P", "O", "S", "T">>
\* "G@T": a method that is no HTTP token
MethodBad == <<"G", "@", "T">>
NameHost == <<"H", "o", "s", "t">>
NameContentType == <<"C", "o", "n", "t", "e", "n", "t", "-", "T", "y", "p", "e">>
NameLower == <<"x", "-", "i", "d">>

\* http://a/x and http://b/y, and the relative /y of a request to host b
URLax == [Scheme |-> SchemeHTTP, Opaque |-> EmptyStr, Host |-> <<"a">>, Path |-> <<"/", "x">>]
URLby == [Scheme |-> SchemeHTTP, Opaque |-> EmptyStr, Host |-> <<"b">>, Path |-> <<"/", "y">>]
URLrel == [Scheme |-> EmptyStr, Opaque |-> EmptyStr, Host |-> EmptyStr, Path |-> <<"/", "y">>]

HeaderHost(h) == NameHost :> << h >>
HeaderLower == NameLower :> << <<"7">> >>
HeaderTwo == (NameHost :> << <<"a">> >>) @@ (NameContentType :> << <<"t">>, <<"u">> >>)
HeaderType == NameContentType :> << <<"t">> >>

MkRequest(method, url, proto, header, host) ==
    [Method |-> method, URL |-> url, Proto |-> proto, Header |-> header, Host |-> host]

\* the longest body, in blocks
MaxBlocks == 2
\* the body of n blocks of the response tagged t
BodyOf(t, n) == [i \in 1..n |-> <<t, i>>]

\* the requests and responses the calls of Spec and SpecConc store
ReqA == MkRequest(MethodGET, URLax, ProtoHTTP11, HeaderHost(<<"a">>), <<"a">>)
ReqB == MkRequest(MethodPOST, URLrel, ProtoHTTP10, HeaderLower, <<"b">>)
ReqBad == MkRequest(MethodBad, URLax, ProtoHTTP11, EmptyHeader, <<"a">>)
Requests == {ReqA, ReqB, ReqBad}

Responses ==
    {[StatusCode |-> 200, Header |-> HeaderType, Body |-> BodyOf("x", n)] : n \in 0..MaxBlocks}
    \cup {[StatusCode |-> 404, Header |-> EmptyHeader, Body |-> BodyOf("y", 1)]}


(***************************************************************************)
(* Spec: the calls of the Store interface, one at a time.  last is the     *)
(* call made last: its frame at the call, and what it returned.            *)
(***************************************************************************)
NumProcs == 2
Procs == 1..NumProcs

\* cls is the class the call was working on when it returned, fault the
\* failure of the filesystem it ran into (none when a store was rejected by
\* its checks, before it wrote), net what the network client returned to it
NoCall == [op |-> "none", key |-> "", override |-> FALSE, req |-> NoReq, resp |-> NoResp,
           clean |-> TRUE, err |-> nil, val |-> NoVal, open |-> {}, all |-> <<>>,
           cls |-> "none", fault |-> NoFault, net |-> NoNet]
Returned(f, r) ==
    [NoCall EXCEPT !.op = f.op, !.key = f.key, !.override = f.override, !.req = f.req,
                   !.resp = f.resp, !.clean = (f.fault = NoFault), !.err = r.err,
                   !.val = r.val, !.open = r.open, !.cls = r.cls,
                   !.fault = IF r.err \in {ErrFoundInStore, ErrFoundInStorePrivate}
                             THEN NoFault ELSE f.fault]

\* the failures of the filesystem during a store to the class cls: vfsWrite
\* fails when it opens the content file, or at the first Write of io.Copy, or
\* it fails to open the file after the Write of the marker failed
StoreFaults(cls) ==
    {NoFault}
    \cup {[mk |-> "none", at |-> at, cls |-> cls, n |-> 0] : at \in {"w_open", "w_copy"}}
    \cup {[mk |-> "mk_write", at |-> "w_open", cls |-> cls, n |-> 0]}

\* the resource classes a call of op works on
ClassesOf(op) ==
    IF op \in {"StoreResponse", "RetrieveResponse", "DelResponse"}
    THEN {bodyPrefix, headerPrefix}
    ELSE {FirstClass(op)}

\* the two families of operations: a request has one record, a response two
Families == {{requestPrefix}, {headerPrefix, bodyPrefix}}

Init ==
    /\ fs = EmptyFS
    /\ last = NoCall
    /\ procs = [p \in Procs |-> IdleFrame]
    /\ focus \in Families

\* a call run to its return
Return(f, r) ==
    /\ fs' = r.fs
    /\ last' = Returned(f, r)
    /\ UNCHANGED <<procs, focus>>
Call(f) == Return(f, Run(f, fs))

CallStoreRequest(K, H) ==
    /\ requestPrefix \in focus
    /\ \E k \in K, h \in H, o \in BOOLEAN :
         \E ft \in StoreFaults(requestPrefix) :
           Call(NewFrame("StoreRequest", k, o, h, NoResp, NoPath, ft))

CallStoreResponse(K) ==
    /\ bodyPrefix \in focus
    /\ \E k \in K, res \in Responses, o \in BOOLEAN :
         \E ft \in StoreFaults(bodyPrefix) \cup StoreFaults(headerPrefix) :
           Call(NewFrame("StoreResponse", k, o, NoReq, res, NoPath, ft))

CallStoreResponseHeader(K) ==
    /\ headerPrefix \in focus
    /\ \E k \in K, res \in Responses, o \in BOOLEAN :
         \E ft \in StoreFaults(headerPrefix) :
           Call(NewFrame("StoreResponseHeader", k, o, NoReq, res, NoPath, ft))

CallRetrieveRequest(K) ==
    /\ requestPrefix \in focus
    /\ \E k \in K :
         Call(NewFrame("RetrieveRequest", k, FALSE, NoReq, NoResp,
                       PathOf(requestPrefix, k), NoFault))

CallRetrieveResponse(K) ==
    /\ bodyPrefix \in focus
    /\ \E k \in K :
         Call(NewFrame("RetrieveResponse", k, FALSE, NoReq, NoResp, NoPath, NoFault))

CallRetrieveResponseHeader(K) ==
    /\ headerPrefix \in focus
    /\ \E k \in K :
         Call(NewFrame("RetrieveResponseHeader", k, FALSE, NoReq, NoResp, NoPath, NoFault))

CallDelRequest(K) ==
    /\ requestPrefix \in focus
    /\ \E k \in K : Call(NewFrame("DelRequest", k, FALSE, NoReq, NoResp, NoPath, NoFault))

CallDelResponse(K) ==
    /\ bodyPrefix \in focus
    /\ \E k \in K : Call(NewFrame("DelResponse", k, FALSE, NoReq, NoResp, NoPath, NoFault))

CallDelResponseBody(K) ==
    /\ bodyPrefix \in focus
    /\ \E k \in K : Call(NewFrame("DelResponseBody", k, FALSE, NoReq, NoResp, NoPath, NoFault))

CallDelResponseHeader(K) ==
    /\ headerPrefix \in focus
    /\ \E k \in K : Call(NewFrame("DelResponseHeader", k, FALSE, NoReq, NoResp, NoPath, NoFault))

\* DelByFilename called with the path of a content file or of a marker
CallDelByFilename(K) ==
    \E k \in K, c \in focus :
      \E path \in {PathOf(c, k), Private(PathOf(c, k))} :
        Call(NewFrame("DelByFilename", k, FALSE, NoReq, NoResp, path, NoFault))

CallRetrieveAllRequests ==
    /\ requestPrefix \in focus
    /\ last' = [NoCall EXCEPT !.op = "RetrieveAllRequests", !.all = RetrieveAllRequests(fs)]
    /\ UNCHANGED <<fs, procs, focus>>

\* Spec works on one key; a behaviour of Spec stays with the family of
\* operations it starts with
TheKey == {KeyNames[1]}

Next ==
    \/ CallStoreRequest(TheKey, Requests)
    \/ CallRetrieveRequest(TheKey)
    \/ CallDelRequest(TheKey)
    \/ CallRetrieveAllRequests
    \/ CallStoreResponse(TheKey)
    \/ CallStoreResponseHeader(TheKey)
    \/ CallRetrieveResponse(TheKey)
    \/ CallRetrieveResponseHeader(TheKey)
    \/ CallDelResponse(TheKey)
    \/ CallDelResponseBody(TheKey)
    \/ CallDelResponseHeader(TheKey)
    \/ CallDelByFilename(TheKey)

Spec == Init /\ [][Next]_vars


(***************************************************************************)
(* SpecCodec: one request, drawn at the start, is stored and retrieved     *)
(***************************************************************************)
SchemeHTTPS == <<"h", "t", "t", "p", "s">>
URLa == [Scheme |-> SchemeHTTP, Opaque |-> EmptyStr, Host |-> <<"a">>, Path |-> EmptyStr]
URLsb == [Scheme |-> SchemeHTTPS, Opaque |-> EmptyStr, Host |-> <<"b">>, Path |-> <<"/", "y">>]

CodecRequests ==
    {MkRequest(m, u, p, h, u.Host) :
        m \in {MethodGET, MethodPOST},
        u \in {URLax, URLby, URLa, URLsb},
        p \in {ProtoHTTP10, ProtoHTTP11},
        h \in {EmptyHeader, HeaderHost(<<"a">>), HeaderLower, HeaderTwo}}

InitCodec ==
    /\ fs = EmptyFS
    /\ \E h \in CodecRequests : last = [NoCall EXCEPT !.req = h]
    /\ procs = [p \in Procs |-> IdleFrame]
    /\ focus = {requestPrefix}

\* StoreRequest of the request drawn
CodecStore ==
    /\ last.op = "none"
    /\ \E k \in TheKey, o \in BOOLEAN :
         Call(NewFrame("StoreRequest", k, o, last.req, NoResp, NoPath, NoFault))

\* RetrieveRequest of the key stored under; last keeps the request stored
ReturnFor(f, r, h) ==
    /\ last' = [Returned(f, r) EXCEPT !.req = h]
    /\ UNCHANGED <<fs, procs, focus>>
CodecRetrieve ==
    /\ last.op = "StoreRequest"
    /\ ReturnFor(NewFrame("RetrieveRequest", last.key, FALSE, NoReq, NoResp,
                          PathOf(requestPrefix, last.key), NoFault),
                 RetrieveRequest(fs, last.key), last.req)

NextCodec == CodecStore \/ CodecRetrieve

SpecCodec == InitCodec /\ [][NextCodec]_vars


(***************************************************************************)
(* SpecWalk: the request records of several keys, and the walk over them   *)
(***************************************************************************)
InitWalk ==
    /\ fs = EmptyFS
    /\ last = NoCall
    /\ procs = [p \in Procs |-> IdleFrame]
    /\ focus = {requestPrefix}

\* one key also takes a second request that decodes, so that the order of
\* the walk shows in what RetrieveAllRequests returns
CallStoreSecondRequest ==
    /\ requestPrefix \in focus
    /\ \E o \in BOOLEAN :
          Call(NewFrame("StoreRequest", KeyNames[2], o, ReqB, NoResp, NoPath, NoFault))

NextWalk ==
    \/ CallStoreRequest(Keys, {ReqA, ReqBad})
    \/ CallStoreSecondRequest
    \/ CallDelRequest(Keys)
    \/ CallDelByFilename(Keys)
    \/ CallRetrieveAllRequests

SpecWalk == InitWalk /\ [][NextWalk]_vars


(***************************************************************************)
(* SpecConc: calls of several callers on one key, interleaved at the       *)
(* filesystem operations.  procs[p] is the call of caller p; last.clean    *)
(* tells that no store has returned an error so far.                       *)
(***************************************************************************)
ConcRequests == {ReqA, ReqB}
ConcResponses ==
    {[StatusCode |-> 200, Header |-> HeaderType, Body |-> BodyOf("x", MaxBlocks)],
     [StatusCode |-> 404, Header |-> EmptyHeader, Body |-> BodyOf("y", 1)],
     [StatusCode |-> 200, Header |-> EmptyHeader, Body |-> BodyOf("z", 0)]}

InitConc ==
    /\ fs = EmptyFS
    /\ last = NoCall
    /\ procs = [p \in Procs |-> IdleFrame]
    /\ focus \in Families

Begin(p, f) ==
    /\ procs[p].pc = "idle"
    /\ procs' = [procs EXCEPT ![p] = f]
    /\ UNCHANGED <<fs, last, focus>>

BeginStoreRequest(p) ==
    /\ requestPrefix \in focus
    /\ \E k \in TheKey, h \in ConcRequests, o \in BOOLEAN :
         Begin(p, NewFrame("StoreRequest", k, o, h, NoResp, NoPath, NoFault))

BeginStoreResponse(p) ==
    /\ bodyPrefix \in focus
    /\ \E k \in TheKey, res \in ConcResponses, o \in BOOLEAN :
         Begin(p, NewFrame("StoreResponse", k, o, NoReq, res, NoPath, NoFault))

BeginRetrieveRequest(p) ==
    /\ requestPrefix \in focus
    /\ \E k \in TheKey :
         Begin(p, NewFrame("RetrieveRequest", k, FALSE, NoReq, NoResp,
                           PathOf(requestPrefix, k), NoFault))

BeginRetrieveResponse(p) ==
    /\ bodyPrefix \in focus
    /\ \E k \in TheKey :
         Begin(p, NewFrame("RetrieveResponse", k, FALSE, NoReq, NoResp, NoPath, NoFault))

\* the content files another caller is in the middle of writing: truncated,
\* written in part and not to the end
Busy(p) ==
    {Target(procs[q]) : q \in {r \in Procs \ {p} : procs[r].pc = "w_copy" /\ procs[r].n > 0}}

\* the handle a caller writes through: once its file is removed, what it
\* writes is lost, whatever is created at the path afterwards
HandlePath(f) ==
    CASE f.pc = "mk_write" -> Private(Target(f))
      [] f.pc = "w_copy" -> Target(f)
      [] OTHER -> NoPath
Unlinked(f, s, t) ==
    IF Exists(s, HandlePath(f)) /\ ~Exists(t, HandlePath(f)) THEN [f EXCEPT !.live = FALSE]
    ELSE f

\* one filesystem operation of the call of caller p
Stepped(p, r) ==
    /\ fs' = r.fs
    /\ procs' = [q \in Procs |-> IF q = p THEN r.f ELSE Unlinked(procs[q], fs, r.fs)]
    /\ UNCHANGED <<last, focus>>
StepProc(p) ==
    /\ procs[p].pc \notin {"idle", "done"}
    /\ Stepped(p, Step(procs[p], fs, Busy(p)))

\* the call of caller p returns
ReturnProc(p) ==
    /\ procs[p].pc = "done"
    /\ procs' = [procs EXCEPT ![p] = IdleFrame]
    /\ last' = [last EXCEPT !.clean = @ /\ ~(procs[p].op \in StoreOps /\ procs[p].err # nil)]
    /\ UNCHANGED <<fs, focus>>

NextConc ==
    \E p \in Procs :
        \/ BeginStoreRequest(p)
        \/ BeginStoreResponse(p)
        \/ BeginRetrieveRequest(p)
        \/ BeginRetrieveResponse(p)
        \/ StepProc(p)
        \/ ReturnProc(p)

SpecConc == InitConc /\ [][NextConc]_vars


(***************************************************************************)
(* The states of a resource, read off the filesystem                       *)
(***************************************************************************)
MarkerHeld(s, path) == Private(path) \in DOMAIN s.files /\ Len(s.files[Private(path)]) > 0
NoMarker(s, path) == Private(path) \notin DOMAIN s.files
Committed(s, path) == path \in DOMAIN s.files /\ Len(s.files[path]) > 0
ZeroLength(s, path) == path \in DOMAIN s.files /\ Len(s.files[path]) = 0
Absent(s, path) == path \notin DOMAIN s.files

\* the resource a call is about: the request record, the header record, or
\* for a call on a full response the body
ResourceOf(c) == PathOf(FirstClass(c.op), c.key)
KeyedRetrieves == {"RetrieveRequest", "RetrieveResponse", "RetrieveResponseHeader"}

\* C3: a retrieve (RetrieveRequest, RetrieveResponseHeader, RetrieveResponse)
\* called while the marker of its resource exists with non-zero size returns
\* ErrFoundInStorePrivate and no content, whether committed content exists or not
C3_MarkerPrecedence ==
    [][(last'.op \in KeyedRetrieves /\ MarkerHeld(fs, ResourceOf(last')))
          => (last'.err = ErrFoundInStorePrivate /\ last'.val = NoVal)]_vars

\* C3: RetrieveResponse has returned ErrFoundInStorePrivate for a body whose
\* marker is held while a committed, non-empty body is in place
C3_Witness ==
    /\ last.op = "RetrieveResponse"
    /\ last.err = ErrFoundInStorePrivate
    /\ MarkerHeld(fs, ResourceOf(last))
    /\ Committed(fs, ResourceOf(last))

\* C5: a retrieve of any class called while the content file of its resource
\* exists with zero length and no marker is held (none exists, or an empty
\* one) returns ErrFoundWithZeroInStore and no value
C5_FoundEmpty ==
    [][(/\ last'.op \in KeyedRetrieves
        /\ ZeroLength(fs, ResourceOf(last'))
        /\ ~MarkerHeld(fs, ResourceOf(last')))
          => (last'.err = ErrFoundWithZeroInStore /\ last'.val = NoVal)]_vars

\* C6: a store without override called while the marker of its resource is
\* held returns ErrFoundInStorePrivate, one called while no marker is held and
\* the content is committed returns ErrFoundInStore, and neither changes a file
C6_RejectedStoreWritesNothing ==
    [][(last'.op \in StoreOps /\ ~last'.override)
          => /\ MarkerHeld(fs, ResourceOf(last'))
                  => (last'.err = ErrFoundInStorePrivate /\ fs' = fs)
             /\ (~MarkerHeld(fs, ResourceOf(last')) /\ Committed(fs, ResourceOf(last')))
                  => (last'.err = ErrFoundInStore /\ fs' = fs)]_vars

\* C6: StoreResponse without override has returned ErrFoundInStorePrivate on a
\* body whose marker is held, with the committed body and the marker in place
C6_Witness ==
    /\ last.op = "StoreResponse"
    /\ ~last.override
    /\ last.err = ErrFoundInStorePrivate
    /\ MarkerHeld(fs, ResourceOf(last))
    /\ Committed(fs, ResourceOf(last))

\* C7: a retrieve of any class called while the content file of its resource
\* does not exist and no marker is held (none exists, or an empty one) returns
\* ErrNotFoundInStore and no value
C7_NotFound ==
    [][(/\ last'.op \in KeyedRetrieves
        /\ Absent(fs, ResourceOf(last'))
        /\ ~MarkerHeld(fs, ResourceOf(last')))
          => (last'.err = ErrNotFoundInStore /\ last'.val = NoVal)]_vars

\* C7: RetrieveRequest has returned ErrNotFoundInStore for a key that was
\* stored (its directory exists) and deleted
C7_Witness ==
    /\ last.op = "RetrieveRequest"
    /\ last.err = ErrNotFoundInStore
    /\ IsDir(fs, Dir(ResourceOf(last)))
    /\ Absent(fs, ResourceOf(last))
    /\ NoMarker(fs, ResourceOf(last))

\* C8: when DelResponseBody follows a StoreResponse that stored the header and
\* the body of the key, it succeeds, RetrieveResponse of the key then returns
\* ErrNotFoundInStore, the header record exists and RetrieveResponseHeader of
\* the key succeeds with the stored status and header block
C8_BodyDeletedHeaderKept ==
    [][(/\ last.op = "StoreResponse" /\ last.err = nil /\ last.clean
        /\ last'.op = "DelResponseBody" /\ last'.key = last.key)
          => /\ last'.err = nil
             /\ RetrieveResponse(fs', last.key).err = ErrNotFoundInStore
             /\ Committed(fs', PathOf(headerPrefix, last.key))
             /\ RetrieveResponseHeader(fs', last.key).err = nil
             /\ RetrieveResponseHeader(fs', last.key).val.resp.StatusCode
                   = last.resp.StatusCode]_vars

\* C8: RetrieveResponse has returned ErrNotFoundInStore for a key whose body is
\* gone and whose header record is committed
C8_Witness ==
    /\ last.op = "RetrieveResponse"
    /\ last.err = ErrNotFoundInStore
    /\ Absent(fs, PathOf(bodyPrefix, last.key))
    /\ Committed(fs, PathOf(headerPrefix, last.key))
    /\ NoMarker(fs, PathOf(headerPrefix, last.key))


(***************************************************************************)
(* What a retrieve is expected to return for what a store was given        *)
(***************************************************************************)
\* a header block with its field names in canonical form: names are compared
\* without regard to case
CanonicalNames(h) == {CanonicalMIMEHeaderKey(k) : k \in DOMAIN h}
HeaderEq(a, b) ==
    /\ CanonicalNames(a) = CanonicalNames(b)
    /\ \A k \in DOMAIN a : \A j \in DOMAIN b :
          CanonicalMIMEHeaderKey(k) = CanonicalMIMEHeaderKey(j) => a[k] = b[j]

\* the URL a stored request is known by: its own when absolute, else the path
\* on the request's host
AbsoluteURL(h) ==
    IF h.URL.Scheme # EmptyStr THEN h.URL
    ELSE [Scheme |-> SchemeHTTP, Opaque |-> EmptyStr, Host |-> h.Host, Path |-> h.URL.Path]

SameRequest(h, got) ==
    /\ got.Method = h.Method
    /\ got.URL = AbsoluteURL(h)
    /\ got.Proto = h.Proto
    /\ HeaderEq(got.Header, h.Header)

\* the value a retrieve returned is the content the store c was given
ReturnsContentOf(c, r) ==
    /\ r.err = nil
    /\ c.op = "StoreRequest" => SameRequest(c.req, r.val.req)
    /\ c.op \in {"StoreResponse", "StoreResponseHeader"} =>
          /\ r.val.resp.StatusCode = c.resp.StatusCode
          /\ HeaderEq(r.val.resp.Header, c.resp.Header)
    /\ c.op = "StoreResponse" => r.val.resp.Body = c.resp.Body

RetrieveOf(op) ==
    CASE op = "StoreRequest" -> "RetrieveRequest"
      [] op = "StoreResponse" -> "RetrieveResponse"
      [] op = "StoreResponseHeader" -> "RetrieveResponseHeader"
      [] OTHER -> "none"

\* the content files of the records a store writes
ContentPaths(c) == {PathOf(cls, c.key) : cls \in ClassesOf(c.op)}

\* C4: for every class and key, (1) a store without override that follows a
\* successful store under the same key returns ErrFoundInStore and leaves the
\* first content in place, (2) a store with override that follows such a
\* rejected store succeeds, and (3) a retrieve that follows a successful store
\* with override returns the content of that store
C4_StoreTwiceThenOverride ==
    [][/\ (/\ last.op \in StoreOps /\ last.err = nil /\ last.clean
           /\ last'.op = last.op /\ last'.key = last.key
           /\ ~last'.override /\ last'.clean)
             => /\ last'.err = ErrFoundInStore
                /\ \A path \in ContentPaths(last) :
                      /\ Exists(fs', path)
                      /\ fs'.files[path] = fs.files[path]
       /\ (/\ last.op \in StoreOps /\ last.err = ErrFoundInStore
           /\ last'.op = last.op /\ last'.key = last.key
           /\ last'.override /\ last'.clean)
             => last'.err = nil
       /\ (/\ last.op \in StoreOps /\ last.err = nil /\ last.clean /\ last.override
           /\ last'.op = RetrieveOf(last.op) /\ last'.key = last.key)
             => ReturnsContentOf(last, last')]_vars


\* C9: StoreRequest followed by RetrieveRequest under the same key returns,
\* with no error, a request of equal method, equal URL, equal protocol and an
\* equal header block (field names compared without regard to case), for
\* every request of CodecRequests: absolute URLs, HTTP/1.0 and HTTP/1.1
C9_RequestRoundTrip ==
    last.op = "RetrieveRequest" => (last.err = nil /\ SameRequest(last.req, last.val.req))

\* the paths under the request prefix that hold committed, non-empty,
\* decodable content with no marker held
ValidRequestKeys(s) ==
    {i \in DOMAIN KeyNames :
        /\ Committed(s, PathOf(requestPrefix, KeyNames[i]))
        /\ ~MarkerHeld(s, PathOf(requestPrefix, KeyNames[i]))
        /\ readRequest(s.files[PathOf(requestPrefix, KeyNames[i])]).err = nil}

\* C10: RetrieveAllRequests returns one request for every path under the
\* request prefix that holds committed, non-empty, decodable content with no
\* marker held, the request that content decodes to, and nothing else
C10_AllCommittedRequests ==
    last.op = "RetrieveAllRequests" =>
        /\ Len(last.all) = Cardinality(ValidRequestKeys(fs))
        /\ \A i \in ValidRequestKeys(fs) : \E j \in DOMAIN last.all :
              last.all[j] = readRequest(fs.files[PathOf(requestPrefix, KeyNames[i])]).req
        /\ \A j \in DOMAIN last.all : \E i \in ValidRequestKeys(fs) :
              last.all[j] = readRequest(fs.files[PathOf(requestPrefix, KeyNames[i])]).req

\* C10: RetrieveAllRequests has returned the one valid request while another
\* key holds a committed record that does not decode, left out of the result
C10_Witness ==
    /\ last.op = "RetrieveAllRequests"
    /\ Len(last.all) = 1
    /\ \E k \in Keys :
          /\ Committed(fs, PathOf(requestPrefix, k))
          /\ NoMarker(fs, PathOf(requestPrefix, k))
          /\ readRequest(fs.files[PathOf(requestPrefix, k)]).err # nil


\* C1: no retrieve returns successfully with content taken from a content
\* file that a writer has truncated, written in part and not yet written to
\* the end
C1_NoHalfWrittenRead ==
    \A p \in Procs :
        (procs[p].op \in RetrieveOps /\ procs[p].pc = "done" /\ procs[p].err = nil)
            => ~procs[p].torn

\* a store without override that is between the return of its marker's
\* creation and the removal of the marker
HoldsMarker(f) ==
    f.op \in StoreOps /\ ~f.override /\ f.pc \in {"w_open", "w_copy", "rm"}

\* C2: for each class and key, at most one of the stores without override is
\* between its marker acquire and its marker release
C2_OneMarkerHolder ==
    \A p \in Procs : \A q \in Procs :
        (/\ HoldsMarker(procs[p]) /\ HoldsMarker(procs[q])
         /\ Target(procs[p]) = Target(procs[q]))
            => p = q


(***************************************************************************)
(* Deletes                                                                 *)
(***************************************************************************)
SingleDeletes == {"DelRequest", "DelResponseHeader", "DelResponseBody"}

\* C11: after every call of DelRequest, DelResponseHeader or DelResponseBody
\* the content file and the marker of its (class, key) are absent, whatever
\* the files were before the call, and a call that finds the content file in
\* place and no marker returns no error
C11_DeleteClearsMarker ==
    [][(last'.op \in SingleDeletes)
          => /\ Absent(fs', ResourceOf(last'))
             /\ NoMarker(fs', ResourceOf(last'))
             /\ (Exists(fs, ResourceOf(last')) /\ NoMarker(fs, ResourceOf(last')))
                   => last'.err = nil]_vars


\* the file at a path is the same in the filesystems s and t: missing in both,
\* or there with the same bytes
SameFile(s, t, path) ==
    /\ Exists(s, path) <=> Exists(t, path)
    /\ Exists(s, path) => s.files[path] = t.files[path]

(***************************************************************************)
(* SpecDel: the deletes on a filesystem whose Remove may fail.  One        *)
(* removal of a call fails: that of the content file (dl_file), that of    *)
(* the marker (dl_private), or the one of DelByFilename (df_remove).       *)
(***************************************************************************)
DelFaults(cls) ==
    {NoFault}
    \cup {[mk |-> "none", at |-> at, cls |-> cls, n |-> 0] : at \in {"dl_file", "dl_private"}}
FilenameFaults == {NoFault, [mk |-> "none", at |-> "df_remove", cls |-> "none", n |-> 0]}

InitDel ==
    /\ fs = EmptyFS
    /\ last = NoCall
    /\ procs = [p \in Procs |-> IdleFrame]
    /\ focus \in Families

DelCall(op, F) ==
    /\ FirstClass(op) \in focus
    /\ \E k \in TheKey, ft \in F :
          Call(NewFrame(op, k, FALSE, NoReq, NoResp, NoPath, ft))
FaultyDelRequest == DelCall("DelRequest", DelFaults(requestPrefix))
FaultyDelResponse == DelCall("DelResponse", DelFaults(bodyPrefix) \cup DelFaults(headerPrefix))
FaultyDelResponseBody == DelCall("DelResponseBody", DelFaults(bodyPrefix))
FaultyDelResponseHeader == DelCall("DelResponseHeader", DelFaults(headerPrefix))
FaultyDelByFilename ==
    \E k \in TheKey, c \in focus, ft \in FilenameFaults :
      \E path \in {PathOf(c, k), Private(PathOf(c, k))} :
        Call(NewFrame("DelByFilename", k, FALSE, NoReq, NoResp, path, ft))

NextDel ==
    \/ CallStoreRequest(TheKey, {ReqA})
    \/ CallStoreResponse(TheKey)
    \/ CallStoreResponseHeader(TheKey)
    \/ FaultyDelRequest
    \/ FaultyDelResponse
    \/ FaultyDelResponseBody
    \/ FaultyDelResponseHeader
    \/ FaultyDelByFilename

SpecDel == InitDel /\ [][NextDel]_vars

\* the error of the deletion of the body in the call c made on the filesystem
\* s: not-found when the body file is missing, the I/O error when its removal
\* fails, none otherwise
BodyDeletionError(c, s) ==
    IF Absent(s, PathOf(bodyPrefix, c.key)) THEN ErrNotFoundInStore
    ELSE IF c.fault.at = "dl_file" /\ c.fault.cls = bodyPrefix THEN ErrIO
    ELSE nil

\* the removal of the marker of the class cls failed in the call c made on s
MarkerRemovalFailed(c, s, cls) ==
    /\ c.fault.at = "dl_private"
    /\ c.fault.cls = cls
    /\ Exists(s, Private(PathOf(cls, c.key)))

\* when the deletion of the body returns an error, not-found or another,
\* DelResponse returns that error and leaves the header record and the
\* header's marker as they were
BodyErrorReturned(c, s, t) ==
    BodyDeletionError(c, s) # nil
        => /\ c.err = BodyDeletionError(c, s)
           /\ SameFile(s, t, PathOf(headerPrefix, c.key))
           /\ SameFile(s, t, Private(PathOf(headerPrefix, c.key)))

\* C12 as stated: DelResponse returns the error of the deletion of the body
\* and leaves the header record and the header's marker as they were; when
\* DelResponse returns no error the body, the header and the markers of both
\* are absent
C12_DelResponseBodyThenHeader ==
    [][(last'.op = "DelResponse")
          => /\ BodyErrorReturned(last', fs, fs')
             /\ last'.err = nil
                  => \A cls \in {bodyPrefix, headerPrefix} :
                        /\ Absent(fs', PathOf(cls, last'.key))
                        /\ NoMarker(fs', PathOf(cls, last'.key))]_vars

\* C12, amended: DelResponse returns the error of the deletion of the body
\* and leaves the header record and the header's marker as they were; when
\* DelResponse returns no error the body and the header are absent, and each
\* of the two markers is absent unless its removal failed, a failure that is
\* not returned and leaves that marker as it was
C12_DelResponseSkipsMarkerFailures ==
    [][(last'.op = "DelResponse")
          => /\ BodyErrorReturned(last', fs, fs')
             /\ last'.err = nil
                  => \A cls \in {bodyPrefix, headerPrefix} :
                        /\ Absent(fs', PathOf(cls, last'.key))
                        /\ IF MarkerRemovalFailed(last', fs, cls)
                           THEN SameFile(fs, fs', Private(PathOf(cls, last'.key)))
                           ELSE NoMarker(fs', PathOf(cls, last'.key))]_vars

\* C12: DelResponse has returned no error after the removal of the body's
\* marker failed: body and header are gone, the body's marker is still held
C12_Witness ==
    /\ last.op = "DelResponse"
    /\ last.err = nil
    /\ last.fault.at = "dl_private"
    /\ last.fault.cls = bodyPrefix
    /\ Absent(fs, PathOf(bodyPrefix, last.key))
    /\ Absent(fs, PathOf(headerPrefix, last.key))
    /\ MarkerHeld(fs, PathOf(bodyPrefix, last.key))


(***************************************************************************)
(* Stores that fail                                                        *)
(***************************************************************************)
\* C13: whenever StoreResponse has returned an error from its header store,
\* the body store having succeeded, RetrieveResponse of the key returns
\* ErrNotFoundInStore and no response
C13_BodyOnlyAfterHeaderFailure ==
    (last.op = "StoreResponse" /\ last.err # nil /\ last.cls = headerPrefix)
        => /\ RetrieveResponse(fs, last.key).err = ErrNotFoundInStore
           /\ RetrieveResponse(fs, last.key).val = NoVal


\* the retrieve and the store without override of one class, as a caller
\* following the call c makes them
RetrieveClass(s, cls, key) ==
    CASE cls = requestPrefix -> RetrieveRequest(s, key)
      [] cls = bodyPrefix -> RetrieveResponse(s, key)
      [] OTHER -> RetrieveResponseHeader(s, key)
StoreClassAgain(s, cls, c) ==
    CASE cls = requestPrefix -> StoreRequest(s, c.req, c.key, FALSE, NoFault)
      [] cls = bodyPrefix -> StoreResponse(s, c.resp, c.key, FALSE, NoFault)
      [] OTHER -> StoreResponseHeader(s, c.resp, c.key, FALSE, NoFault)

\* the content write of the store last called failed: at the open of the
\* content file or at the first Write of io.Copy
WriteFailed(c) ==
    c.op \in StoreOps /\ c.fault.at \in {"w_open", "w_copy"}

\* C16: when the content write of a store fails, the store returns the I/O
\* error, the marker of the class and key is held when it returns, a
\* following retrieve of the class returns ErrFoundInStorePrivate and so does
\* a following store without override
C16_FailedWriteKeepsMarker ==
    WriteFailed(last)
        => /\ last.err = ErrIO
           /\ last.cls = last.fault.cls
           /\ MarkerHeld(fs, PathOf(last.cls, last.key))
           /\ RetrieveClass(fs, last.cls, last.key).err = ErrFoundInStorePrivate
           /\ StoreClassAgain(fs, last.cls, last).err = ErrFoundInStorePrivate


(***************************************************************************)
(* Concurrent writers                                                      *)
(***************************************************************************)
\* every store started so far has returned, and returned no error: none is
\* under way, none has returned an error before, and a store of the class did
\* run (it made the directory of the class)
AllStoresReturned(cls) ==
    /\ last.clean
    /\ \A p \in Procs : procs[p].op \in StoreOps => (procs[p].pc = "done" /\ procs[p].err = nil)
    /\ IsDir(fs, Dir(PathOf(cls, KeyNames[1])))

\* C15: in every state where the stores started on a class and key have all
\* returned without error (one writer or several at a time, with or without
\* override, no delete), no marker file of the class and key exists and its
\* content file holds committed content
C15_CommittedAfterStores ==
    \A cls \in focus :
        AllStoresReturned(cls)
            => /\ NoMarker(fs, PathOf(cls, KeyNames[1]))
               /\ Committed(fs, PathOf(cls, KeyNames[1]))


\* the bytes a store hands to the content file of the class cls
ContentOf(f, cls) ==
    CASE cls = requestPrefix -> RequestBytes(f.req)
      [] cls = headerPrefix -> ResponseHeaderBytes(f.resp.StatusCode, f.resp.Header)
      [] OTHER -> f.resp.Body

\* two callers have both returned, without error, from stores with override
\* of the same operation under the same key
BothOverrideDone(p, q) ==
    /\ p # q
    /\ procs[p].op \in StoreOps /\ procs[q].op = procs[p].op /\ procs[q].key = procs[p].key
    /\ procs[p].override /\ procs[q].override
    /\ procs[p].pc = "done" /\ procs[q].pc = "done"
    /\ procs[p].err = nil /\ procs[q].err = nil

\* C18: once two stores with override of the same class and key have both
\* returned, the content file holds exactly the content of one of the two
\* writers, never bytes of both
C18_OneWritersContent ==
    \A p \in Procs : \A q \in Procs :
        BothOverrideDone(p, q)
            => \A cls \in ClassesOf(procs[p].op) :
                  /\ Exists(fs, PathOf(cls, procs[p].key))
                  /\ fs.files[PathOf(cls, procs[p].key)]
                        \in {ContentOf(procs[p], cls), ContentOf(procs[q], cls)}


(***************************************************************************)
(* File handles of the retrieves                                           *)
(***************************************************************************)
\* C19: a retrieve has at most one content file open at any moment, and when
\* RetrieveResponse or RetrieveResponseHeader has returned an error no file
\* the call opened is still open
C19_HandlesReleased ==
    \A p \in Procs :
        procs[p].op \in RetrieveOps
            => /\ Cardinality(procs[p].open) <= 1
               /\ (/\ procs[p].op \in {"RetrieveResponse", "RetrieveResponseHeader"}
                   /\ procs[p].pc = "done"
                   /\ procs[p].err # nil)
                     => procs[p].open = {}


(***************************************************************************)
(* SpecCrash: the request records of one key, the calls made one at a      *)
(* time, and one writer that stops for good between the creation and the   *)
(* removal of its marker.  procs[p] keeps the call that stopped.           *)
(***************************************************************************)
Crashed == "crashed"

\* the points between marker acquire and marker release: the filesystem
\* operation the writer was about to make when it stopped
CrashPointsEarly == {"mk_open"}
CrashPoints == {"w_open", "w_copy", "rm"}

\* a call run from its start up to the filesystem operation stop
RECURSIVE RunTo(_, _, _)
RunToOn(r, stop) == RunTo(r.f, r.fs, stop)
RunTo(f, s, stop) ==
    IF f.pc \in {"done", stop} THEN [f |-> f, fs |-> s]
    ELSE RunToOn(Step(f, s, {}), stop)

InitCrash ==
    /\ fs = EmptyFS
    /\ last = NoCall
    /\ procs = [p \in Procs |-> IdleFrame]
    /\ focus = {requestPrefix}

\* the writer p has run up to the point r.f.pc and stops there
Stopped(p, r, stop) ==
    /\ r.f.pc = stop
    /\ fs' = r.fs
    /\ procs' = [procs EXCEPT ![p] = [r.f EXCEPT !.pc = Crashed]]
    /\ last' = [NoCall EXCEPT !.op = r.f.op, !.key = r.f.key, !.override = r.f.override,
                              !.req = r.f.req, !.err = Crashed]
    /\ UNCHANGED focus

\* StoreRequest by a caller that stops between acquire and release
CrashStoreRequest ==
    /\ \A q \in Procs : procs[q].pc = "idle"
    /\ \E p \in Procs, k \in TheKey, h \in ConcRequests, o \in BOOLEAN, stop \in CrashPoints :
         Stopped(p, RunTo(NewFrame("StoreRequest", k, o, h, NoResp, NoPath, NoFault), fs, stop),
                 stop)

NextCrash ==
    \/ CrashStoreRequest
    \/ CallStoreRequest(TheKey, ConcRequests)
    \/ CallRetrieveRequest(TheKey)
    \/ CallDelRequest(TheKey)
    \/ CallDelByFilename(TheKey)
    \/ CallRetrieveAllRequests

SpecCrash == InitCrash /\ [][NextCrash]_vars

\* the calls that remove a marker: the deletes, and a store with override
Clears(c) == c.op \in DelOps \cup {"DelByFilename"} \/ (c.op \in StoreOps /\ c.override)

\* C17 as stated: once a writer has stopped between acquire and release, the
\* marker of its class and key is held in every later state, whatever the
\* other callers store, retrieve and delete
C17_StuckMarkerForever ==
    \A p \in Procs : procs[p].pc = Crashed => MarkerHeld(fs, Target(procs[p]))

\* C17, amended: when a writer stops between acquire and release the marker of
\* its class and key is held, and it stays held through every retrieve and
\* every store without override of the other callers, which return
\* ErrFoundInStorePrivate; only a delete or a store with override removes it
C17_StuckMarkerUntilCleared ==
    [][\A p \in Procs :
          /\ (procs[p].pc = "idle" /\ procs'[p].pc = Crashed)
                => MarkerHeld(fs', Target(procs'[p]))
          /\ (procs[p].pc = Crashed /\ MarkerHeld(fs, Target(procs[p])) /\ ~Clears(last'))
                => /\ MarkerHeld(fs', Target(procs[p]))
                   /\ last'.op \in StoreOps \cup KeyedRetrieves
                         => last'.err = ErrFoundInStorePrivate]_vars

\* C17: after the writer stopped, another caller's store without override has
\* been rejected with ErrFoundInStorePrivate and the marker is still held
C17_Witness ==
    \E p \in Procs :
        /\ procs[p].pc = Crashed
        /\ last.op = "StoreRequest" /\ ~last.override
        /\ last.err = ErrFoundInStorePrivate
        /\ MarkerHeld(fs, Target(procs[p]))


(***************************************************************************)
(* SpecFrame: the three classes and several keys.  focus is the set of the *)
(* resources <<class, key>> the calls of a behaviour work on.              *)
(***************************************************************************)
Classes == {requestPrefix, headerPrefix, bodyPrefix}
ResponseClasses == {headerPrefix, bodyPrefix}

\* the sets of resources: the three classes of one key, one class of two
\* keys, the request of one key with the response of another
Scenes ==
    {Classes \X {k} : k \in Keys}
    \cup {{requestPrefix} \X {j, k} : j, k \in Keys}
    \cup {ResponseClasses \X {j, k} : j, k \in Keys}
    \cup {({requestPrefix} \X {j}) \cup (ResponseClasses \X {k}) : j, k \in Keys}

FrameResponse == [StatusCode |-> 200, Header |-> HeaderType, Body |-> BodyOf("x", 1)]

\* a store fails, if it does, when vfsWrite opens the content file
FrameFaults(op) ==
    {NoFault} \cup {[mk |-> "none", at |-> "w_open", cls |-> cls, n |-> 0] : cls \in ClassesOf(op)}

InitFrame ==
    /\ fs = EmptyFS
    /\ last = NoCall
    /\ procs = [p \in Procs |-> IdleFrame]
    /\ focus \in Scenes

\* a call of op on the key k, when its resources are those of the behaviour
FrameCall(op, k, o, ft) ==
    /\ ClassesOf(op) \X {k} \subseteq focus
    /\ Call(NewFrame(op, k, o,
                     IF op = "StoreRequest" THEN ReqA ELSE NoReq,
                     IF op \in {"StoreResponse", "StoreResponseHeader"} THEN FrameResponse
                     ELSE NoResp,
                     IF op = "RetrieveRequest" THEN PathOf(requestPrefix, k) ELSE NoPath, ft))

FrameStoreRequest ==
    \E k \in Keys, o \in BOOLEAN : \E ft \in FrameFaults("StoreRequest") :
        FrameCall("StoreRequest", k, o, ft)
FrameStoreResponse ==
    \E k \in Keys, o \in BOOLEAN : \E ft \in FrameFaults("StoreResponse") :
        FrameCall("StoreResponse", k, o, ft)
FrameStoreResponseHeader ==
    \E k \in Keys, o \in BOOLEAN : \E ft \in FrameFaults("StoreResponseHeader") :
        FrameCall("StoreResponseHeader", k, o, ft)
FrameRetrieveRequest == \E k \in Keys : FrameCall("RetrieveRequest", k, FALSE, NoFault)
FrameRetrieveResponse == \E k \in Keys : FrameCall("RetrieveResponse", k, FALSE, NoFault)
FrameRetrieveResponseHeader ==
    \E k \in Keys : FrameCall("RetrieveResponseHeader", k, FALSE, NoFault)
FrameDelRequest == \E k \in Keys : FrameCall("DelRequest", k, FALSE, NoFault)
FrameDelResponse == \E k \in Keys : FrameCall("DelResponse", k, FALSE, NoFault)
FrameDelResponseBody == \E k \in Keys : FrameCall("DelResponseBody", k, FALSE, NoFault)
FrameDelResponseHeader == \E k \in Keys : FrameCall("DelResponseHeader", k, FALSE, NoFault)

NextFrame ==
    \/ FrameStoreRequest
    \/ FrameStoreResponse
    \/ FrameStoreResponseHeader
    \/ FrameRetrieveRequest
    \/ FrameRetrieveResponse
    \/ FrameRetrieveResponseHeader
    \/ FrameDelRequest
    \/ FrameDelResponse
    \/ FrameDelResponseBody
    \/ FrameDelResponseHeader

SpecFrame == InitFrame /\ [][NextFrame]_vars

\* the classes a call counts as an operation on: DelResponseBody on the body,
\* StoreResponse, RetrieveResponse and DelResponse on body and header
OwnResources(c) == ClassesOf(c.op) \X {c.key}

\* C14: a store, retrieve or delete leaves the content file and the marker
\* file of every other class of its key, and of every class of every other
\* key, as they were
C14_OtherResourcesUnchanged ==
    [][(last'.op \in StoreOps \cup KeyedRetrieves \cup DelOps)
          => \A r \in (Classes \X Keys) \ OwnResources(last') :
                /\ SameFile(fs, fs', PathOf(r[1], r[2]))
                /\ SameFile(fs, fs', Private(PathOf(r[1], r[2])))]_vars

\* C14: StoreRequest has stored the request of a key whose body is committed
\* and whose header marker is held
C14_Witness ==
    /\ last.op = "StoreRequest"
    /\ last.err = nil
    /\ Committed(fs, PathOf(requestPrefix, last.key))
    /\ Committed(fs, PathOf(bodyPrefix, last.key))
    /\ MarkerHeld(fs, PathOf(headerPrefix, last.key))


(***************************************************************************)
(* SpecFetch: FetchAndStoreResponse, with what client.Do returns drawn     *)
(* from the outcomes of http.Client.Do, and the retrieves and deletes of   *)
(* the keys it stores under.  Keys are texts here.                         *)
(***************************************************************************)
\* strings.Contains
Contains(s, sub) ==
    \E i \in 0..(Len(s) - Len(sub)) : SubSeq(s, i + 1, i + Len(sub)) = sub

RedirectSignal == <<"R","E","D","I","R","E","C","T","!","!","!">>
DummyKey == <<"d","u","m","m","y">>

\* the errors of client.Do and err.Error() of each: a failed connection, a
\* failed connection to a URL that holds the signal, and a redirect stopped
\* by the client's policy on such a URL
ErrRefused == "dial tcp: connection refused"
ErrRefusedSignalURL == "Get http://a/REDIRECT!!!: dial tcp: connection refused"
ErrStoppedSignalURL == "Get http://a/REDIRECT!!!: stopped after 10 redirects"
ErrorText(e) ==
    CASE e = ErrRefused -> <<"d","i","a","l">>
      [] e = ErrRefusedSignalURL -> <<"G","e","t"," ">> \o RedirectSignal \o <<":"," ","d","i","a","l">>
      [] e = ErrStoppedSignalURL -> <<"G","e","t"," ">> \o RedirectSignal \o <<":"," ","s","t","o","p">>
      [] OTHER -> EmptyStr

\* the nil pointer dereference of resp.Body on a nil response: the call does
\* not return
Panic == "panic: invalid memory address or nil pointer dereference"

\* client.Do: a response with no error; no response with an error; and, when
\* the redirect policy stops the request, the last response with its body
\* closed, together with the error
FetchResponses ==
    {[StatusCode |-> 200, Header |-> HeaderType, Body |-> BodyOf("x", MaxBlocks)],
     [StatusCode |-> 404, Header |-> EmptyHeader, Body |-> BodyOf("y", 1)]}
NetOutcomes ==
    {[isnil |-> FALSE, resp |-> res, closed |-> FALSE, err |-> nil] : res \in FetchResponses}
    \cup {[NoNet EXCEPT !.err = e] : e \in {ErrRefused, ErrRefusedSignalURL}}
    \cup {[isnil |-> FALSE, resp |-> res, closed |-> TRUE, err |-> ErrStoppedSignalURL] :
             res \in {r \in FetchResponses : r.StatusCode = 404}}

\* NewResponseFromHttp: status code, header and body of the live response
NewResponseFromHttp(resp) ==
    [StatusCode |-> resp.StatusCode, Header |-> resp.Header, Body |-> resp.Body]

\* the Read of a closed body fails: io.Copy returns before its first Write
ReadFault(net) ==
    IF net.closed THEN [mk |-> "none", at |-> "w_copy", cls |-> bodyPrefix, n |-> 0]
    ELSE NoFault

\* the key stored under: the request's URL when the key is "dummy"
FetchKey(h, key) == IF ToLowerStr(key) = DummyKey THEN URLString(h.URL) ELSE key

\* a transport error is returned unless its text holds the signal
Swallowed(e) == Contains(ErrorText(e), RedirectSignal)

FetchAndStoreResponse(s, h, key, override, net) ==
    IF net.err # nil /\ ~Swallowed(net.err)
    THEN [fs |-> s, err |-> net.err, val |-> NoVal, open |-> {}, cls |-> "none"]
    ELSE IF net.isnil
    THEN [fs |-> s, err |-> Panic, val |-> NoVal, open |-> {}, cls |-> "none"]
    ELSE StoreResponse(s, NewResponseFromHttp(net.resp), FetchKey(h, key), override,
                       ReadFault(net))

FetchRequests == {ReqA}
\* the key given: the URL itself, or "Dummy", which stands for it
FetchKeys == {URLString(ReqA.URL), <<"D","u","m","m","y">>}
StoredKeys == {FetchKey(h, k) : h \in FetchRequests, k \in FetchKeys}

InitFetch ==
    /\ fs = EmptyFS
    /\ last = NoCall
    /\ procs = [p \in Procs |-> IdleFrame]
    /\ focus = ResponseClasses

\* the caller that fetches; the other callers retrieve and delete
Fetcher == CHOOSE p \in Procs : \A q \in Procs : p <= q

\* the frame of a fetch: the StoreResponse it goes on to, under the key it
\* stores under, with what client.Do returned
FetchFrame(h, key, override, net) ==
    [NewFrame("StoreResponse", FetchKey(h, key), override, h, NewResponseFromHttp(net.resp),
              NoPath, ReadFault(net)) EXCEPT !.net = net]
InFetch(f) == f.net # NoNet

FetchReturn(f, r, net) ==
    /\ fs' = r.fs
    /\ last' = [Returned([f EXCEPT !.op = "FetchAndStoreResponse"], r) EXCEPT !.net = net]

\* FetchAndStoreResponse up to the return of client.Do: with an error that is
\* not swallowed, or with no response, the call is over; otherwise it goes on
\* to StoreResponse, whose Reads of the body wait for the network between the
\* filesystem operations of the store
CallFetchAndStoreResponse(p) ==
    /\ p = Fetcher
    /\ procs[p].pc = "idle"
    /\ \E h \in FetchRequests, k \in FetchKeys, o \in BOOLEAN, net \in NetOutcomes :
          IF (net.err # nil /\ ~Swallowed(net.err)) \/ net.isnil
          THEN /\ FetchReturn(FetchFrame(h, k, o, net),
                              FetchAndStoreResponse(fs, h, k, o, net), net)
               /\ UNCHANGED <<procs, focus>>
          ELSE Begin(p, FetchFrame(h, k, o, net))

\* the StoreResponse of the fetch of caller p has returned: the fetch
\* returns its error
ReturnFetchAndStoreResponse(p) ==
    /\ procs[p].pc = "done"
    /\ InFetch(procs[p])
    /\ FetchReturn(procs[p],
                   [fs |-> fs, err |-> procs[p].err, val |-> procs[p].val,
                    open |-> procs[p].open, cls |-> procs[p].cls],
                   procs[p].net)
    /\ procs' = [procs EXCEPT ![p] = IdleFrame]
    /\ UNCHANGED focus

\* the calls of the other callers, which run between the steps of a fetch
BeginOther(p, op) ==
    /\ p # Fetcher
    /\ \E k \in StoredKeys : Begin(p, NewFrame(op, k, FALSE, NoReq, NoResp, NoPath, NoFault))
BeginFetchedRetrieve(p) == BeginOther(p, "RetrieveResponse")
BeginFetchedDelResponse(p) == BeginOther(p, "DelResponse")
BeginFetchedDelResponseBody(p) == BeginOther(p, "DelResponseBody")
ReturnOther(p) == ~InFetch(procs[p]) /\ ReturnProc(p)

NextFetch ==
    \E p \in Procs :
        \/ CallFetchAndStoreResponse(p)
        \/ ReturnFetchAndStoreResponse(p)
        \/ BeginFetchedRetrieve(p)
        \/ BeginFetchedDelResponse(p)
        \/ BeginFetchedDelResponseBody(p)
        \/ StepProc(p)
        \/ ReturnOther(p)

SpecFetch == InitFetch /\ [][NextFetch]_vars

\* the step is the return of a fetch: at the return of client.Do, no caller's
\* frame changing, or at the return of its StoreResponse
FetchReturns ==
    /\ last'.op = "FetchAndStoreResponse"
    /\ \/ procs' = procs
       \/ procs[Fetcher].pc = "done" /\ procs'[Fetcher].pc = "idle"

\* C20: when client.Do returns an error whose text holds the signal,
\* FetchAndStoreResponse does not return that error and does not crash, and
\* goes on to the store; when it returns any other error, the call returns
\* that error and no file is written
C20_TransportErrors ==
    [][(FetchReturns /\ last'.net.err # nil)
          => IF Swallowed(last'.net.err)
             THEN /\ last'.err # last'.net.err
                  /\ last'.err # Panic
                  /\ last'.cls \in ResponseClasses
             ELSE /\ last'.err = last'.net.err
                  /\ fs' = fs]_vars


(***************************************************************************)
(* SpecClose: the Close of the Response entities.  A Response embeds a     *)
(* ReadSeekCloser, so r.Close() is the Close of the wrapper around its     *)
(* body: ByteReadSeekCloser (NewResponseBytes) or IoReaderToReadSeekCloser *)
(* (NewResponseFromHttp).  procs[p] is the entity caller p holds and the   *)
(* stack of its Close call, one step per call or return.                   *)
(***************************************************************************)
ByteReadSeekCloser == "ByteReadSeekCloser"
IoReaderToReadSeekCloser == "IoReaderToReadSeekCloser"
ReadCloser == "io.ReadCloser"
BytesReader == "bytes.Reader"
NoType == "none"

\* the methods each type declares itself, and the type it embeds
Declares(t) ==
    CASE t = ByteReadSeekCloser -> {"Close"}
      [] t = IoReaderToReadSeekCloser -> {"Seek", "Close"}
      [] t = ReadCloser -> {"Read", "Close"}
      [] t = BytesReader -> {"Read", "Seek"}
      [] OTHER -> {}
Embedded(t) ==
    CASE t = ByteReadSeekCloser -> BytesReader
      [] t = IoReaderToReadSeekCloser -> ReadCloser
      [] OTHER -> NoType

\* the selector x.name on a value of type t: the method declared at the
\* shallowest depth, so a method of t itself hides the embedded type's
RECURSIVE Selector(_, _)
Selector(t, name) ==
    IF name \in Declares(t) THEN t
    ELSE IF Embedded(t) = NoType THEN NoType
    ELSE Selector(Embedded(t), name)

\* the frames the goroutine's stack holds before the runtime ends the
\* program with "fatal error: stack overflow"
StackLimit == 4

StackOverflow == "fatal error: stack overflow"

NoEntity ==
    [wrapper |-> NoType, resp |-> NoResp, pc |-> "idle", stack |-> <<>>, closes |-> 0,
     err |-> nil]

\* NewResponseBytes and NewResponseFromHttp: the entity and the wrapper
\* around its body
NewResponseBytes(resp) ==
    [NoEntity EXCEPT !.wrapper = ByteReadSeekCloser, !.resp = resp, !.pc = "built"]
NewEntityFromHttp(resp) ==
    [NoEntity EXCEPT !.wrapper = IoReaderToReadSeekCloser,
                     !.resp = NewResponseFromHttp(resp), !.pc = "built"]

\* a frame of a Close method: entered, or waiting for the call it made
Frame(t, pc) == [m |-> t, pc |-> pc]
Top(e) == e.stack[Len(e.stack)]
Pop(e) ==
    IF Len(e.stack) = 1 THEN [e EXCEPT !.stack = <<>>, !.pc = "returned"]
    ELSE [e EXCEPT !.stack = SubSeq(@, 1, Len(@) - 1)]
Push(e, t) ==
    IF Len(e.stack) = StackLimit THEN [e EXCEPT !.pc = "fatal", !.err = StackOverflow]
    ELSE [e EXCEPT !.stack = Append([@ EXCEPT ![Len(@)].pc = "return"], Frame(t, "enter"))]

\* one step of the Close call of entity e
\*   ByteReadSeekCloser.Close:        return nil
\*   IoReaderToReadSeekCloser.Close:  return iosc.Close()
\*   the body's own Close:            closes the body
CloseStep(e) ==
    CASE Top(e).pc = "return" -> Pop(e)
      [] Top(e).m = ByteReadSeekCloser -> Pop(e)
      [] Top(e).m = IoReaderToReadSeekCloser ->
             Push(e, Selector(IoReaderToReadSeekCloser, "Close"))
      [] OTHER -> Pop([e EXCEPT !.closes = @ + 1])

\* the stack overflow ends the program: every caller stops
Overflowed == \E p \in Procs : procs[p].pc = "fatal"

InitClose ==
    /\ fs = EmptyFS
    /\ last = NoCall
    /\ procs = [p \in Procs |-> NoEntity]
    /\ focus = {}

Held(p, e) ==
    /\ ~Overflowed
    /\ procs' = [procs EXCEPT ![p] = e]
    /\ UNCHANGED <<fs, last, focus>>
BuildResponseBytes(p) ==
    /\ procs[p].pc = "idle"
    /\ \E res \in FetchResponses : Held(p, NewResponseBytes(res))
BuildResponseFromHttp(p) ==
    /\ procs[p].pc = "idle"
    /\ \E res \in FetchResponses : Held(p, NewEntityFromHttp(res))
\* r.Close(): the Close of the wrapper the entity embeds
CallClose(p) ==
    /\ procs[p].pc = "built"
    /\ Held(p, [procs[p] EXCEPT !.pc = "closing",
                                !.stack = <<Frame(Selector(procs[p].wrapper, "Close"), "enter")>>])
StepClose(p) ==
    /\ procs[p].pc = "closing"
    /\ Held(p, CloseStep(procs[p]))
\* the caller lets go of the entity it closed
DropResponse(p) ==
    /\ procs[p].pc = "returned"
    /\ Held(p, NoEntity)

NextClose ==
    \E p \in Procs :
        \/ BuildResponseBytes(p)
        \/ BuildResponseFromHttp(p)
        \/ CallClose(p)
        \/ StepClose(p)
        \/ DropResponse(p)

SpecClose == InitClose /\ [][NextClose]_vars

\* the frames of method t on the stack of entity e
FramesOf(e, t) == {i \in 1..Len(e.stack) : e.stack[i].m = t}

\* C21: Close on a Response built by NewResponseFromHttp terminates: the call
\* never nests in its own method and never ends in a stack overflow, and once
\* it has returned the wrapped body has been closed exactly once
C21_CloseTerminates ==
    \A p \in Procs :
        procs[p].wrapper = IoReaderToReadSeekCloser
            => /\ Cardinality(FramesOf(procs[p], IoReaderToReadSeekCloser)) <= 1
               /\ procs[p].pc # "fatal"
               /\ procs[p].pc = "returned" => procs[p].closes = 1


====
